---- MODULE Spec2Model ----
(***************************************************************************)
(* Model of the MealPrepAI Flask backend (src/app.py): the four POST       *)
(* handlers /suggest, /ai/instructions, /ai/chat and /email, their         *)
(* external collaborators (the OpenAI responses API, random.randint, the   *)
(* process environment and the SMTP transport) and the responses they      *)
(* produce.                                                                *)
(*                                                                         *)
(* JSON values are tagged records [t |-> type, v |-> value]; a Python dict *)
(* with a fixed key universe is a record whose missing keys hold JAbsent;  *)
(* a Python str is a sequence of text fragments, single characters where   *)
(* the code looks inside the string.                                       *)
(***************************************************************************)
EXTENDS Integers, Sequences, FiniteSets, TLC

VARIABLES handler, data, collab, io, resp, issued

vars == <<handler, data, collab, io, resp, issued>>

(***************************************************************************)
(* Bounds                                                                  *)
(***************************************************************************)
\* longest recipes list the generation collaborator delivers
MaxRecipes == 4

(***************************************************************************)
(* JSON / Python values                                                    *)
(***************************************************************************)
JAbsent == [t |-> "absent"]
JNull == [t |-> "null"]
JInt(n) == [t |-> "int", v |-> n]
JStr(s) == [t |-> "str", v |-> s]
JList(s) == [t |-> "list", v |-> s]
JObj(d) == [t |-> "object", v |-> d]

\* dict.get(k): a missing key and an explicit null both read as None
Get(d, k) == IF d[k].t = "absent" THEN JNull ELSE d[k]

\* dict.get(k, default): the default is used only when the key is missing
GetDefault(d, k, default) == IF d[k].t = "absent" THEN default ELSE d[k]

\* `k in d`
HasKey(d, k) == d[k].t # "absent"

\* Python truthiness of a JSON value
Truthy(x) ==
  CASE x.t = "absent" -> FALSE
    [] x.t = "null" -> FALSE
    [] x.t = "int" -> x.v # 0
    [] x.t = "str" -> x.v # <<>>
    [] x.t = "list" -> x.v # <<>>
    [] x.t = "object" -> \E k \in DOMAIN x.v : x.v[k].t # "absent"

\* Python `x or default`
OrElse(x, default) == IF Truthy(x) THEN x ELSE default

IsSpace(c) == c \in {" ", "\n"}

RECURSIVE lstrip(_)
lstrip(s) == IF s # <<>> /\ IsSpace(Head(s)) THEN lstrip(Tail(s)) ELSE s

RECURSIVE rstrip(_)
rstrip(s) ==
  IF s # <<>> /\ IsSpace(s[Len(s)]) THEN rstrip(SubSeq(s, 1, Len(s) - 1)) ELSE s

\* str.strip()
strip(s) == rstrip(lstrip(s))

LowerChar(c) ==
  CASE c = "L" -> "l"
    [] c = "D" -> "d"
    [] OTHER -> c

\* str.lower()
lower(s) == [i \in 1..Len(s) |-> LowerChar(s[i])]

DigitValue(c) ==
  CASE c = "0" -> 0 [] c = "1" -> 1 [] c = "2" -> 2 [] c = "3" -> 3
    [] c = "4" -> 4 [] c = "5" -> 5 [] c = "6" -> 6 [] c = "7" -> 7
    [] c = "8" -> 8 [] c = "9" -> 9 [] OTHER -> -1

RECURSIVE DigitsValue(_)
DigitsValue(s) ==
  IF s = <<>> THEN 0 ELSE 10 * DigitsValue(SubSeq(s, 1, Len(s) - 1)) + DigitValue(s[Len(s)])

IsDigits(s) == s # <<>> /\ \A i \in 1..Len(s) : DigitValue(s[i]) >= 0

Ok(v) == [ok |-> TRUE, v |-> v]
Raise(e, line) == [ok |-> FALSE, exc |-> e, line |-> line]

\* int(x): numbers convert, digit strings parse, anything else raises
int(x, line) ==
  CASE x.t = "int" -> Ok(x.v)
    [] x.t = "str" ->
         IF IsDigits(strip(x.v)) THEN Ok(DigitsValue(strip(x.v)))
         ELSE Raise("ValueError", line)
    [] OTHER -> Raise("TypeError", line)

\* (x or "").strip(): only a str has .strip()
or_empty_strip(x, line) ==
  LET y == OrElse(x, JStr(<<>>))
  IN IF y.t = "str" THEN Ok(strip(y.v)) ELSE Raise("AttributeError", line)

Max(a, b) == IF a >= b THEN a ELSE b
Min(a, b) == IF a <= b THEN a ELSE b

(***************************************************************************)
(* Responses                                                               *)
(***************************************************************************)
NoResponse == [kind |-> "none"]

\* jsonify(payload), status
Json(status, body) == [kind |-> "json", status |-> status, body |-> body]

\* an exception that leaves the handler; the framework answers, not the handler
Unhandled(r) == [kind |-> "exception", exc |-> r.exc, line |-> r.line]

Result(r, log) == [resp |-> r, io |-> log]

(***************************************************************************)
(* POST /suggest                                                           *)
(***************************************************************************)
DefaultLimit == 5
MinLimit == 3
MaxLimit == 6
RandLo == 100000
RandHi == 999999

\* limit = max(3, min(limit, 6))
clamp_limit(n) == Max(MinLimit, Min(n, MaxLimit))

\* limit = int(data.get("limit") or 5)
read_limit(d) == int(OrElse(Get(d, "limit"), JInt(DefaultLimit)), 40)

\* a retry wrapper: a failed call is issued a second time
responses_create_retry(log, prompt, gen) ==
  LET call == [op |-> "responses.create", prompt |-> prompt]
  IN IF gen.kind = "raise" THEN <<call, call>> ELSE Append(log, call)

\* client.responses.create(...): one call carrying the prompt's inputs,
\* whatever the collaborator answers
responses_create(log, prompt, gen) ==
  Append(log, [op |-> "responses.create", prompt |-> prompt])

\* resp.output_text: None, or the text the model produced
output_text(gen) == IF gen.text = "none" THEN JNull ELSE JStr(gen.value)

\* json.loads(resp.output_text.strip()): the text either is a JSON document
\* (gen.value is that document, parsed) or is not
json_loads(gen) ==
  CASE gen.text = "none" -> Raise("AttributeError", 93)
    [] gen.text = "prose" -> Raise("JSONDecodeError", 95)
    [] gen.text = "json" -> Ok(gen.value)

\* data_json.get("recipes", [])
get_recipes(doc) ==
  IF doc.t = "object" THEN Ok(GetDefault(doc.v, "recipes", JList(<<>>)))
  ELSE Raise("AttributeError", 96)

\* the key normalisation without its `"cost_usd" not in r` guard
normalize_recipe_overwrite(r, rid) ==
  LET r1 == IF HasKey(r, "goal") THEN r ELSE [r EXCEPT !.goal = JList(<<>>)]
      r2 == IF HasKey(r1, "id") THEN r1 ELSE [r1 EXCEPT !.id = JInt(rid)]
  IN IF HasKey(r2, "cost_per_serving_usd")
     THEN [r2 EXCEPT !.cost_usd = Get(r2, "cost_per_serving_usd")]
     ELSE r2

\* the body of the normalisation loop for one dict r; rid is the value
\* random.randint(100000, 999999) returns if it is called
normalize_recipe(r, rid) ==
  LET r1 == IF HasKey(r, "goal") THEN r ELSE [r EXCEPT !.goal = JList(<<>>)]
      r2 == IF HasKey(r1, "id") THEN r1 ELSE [r1 EXCEPT !.id = JInt(rid)]
      r3 == IF HasKey(r2, "cost_per_serving_usd") /\ ~HasKey(r2, "cost_usd")
            THEN [r2 EXCEPT !.cost_usd = Get(r2, "cost_per_serving_usd")]
            ELSE r2
  IN r3

\* number of list entries that are dicts lacking "id" (each draws one random id)
RECURSIVE NeedsId(_)
NeedsId(s) ==
  IF s = <<>> THEN 0
  ELSE NeedsId(Tail(s)) +
       (IF Head(s).t = "object" /\ ~HasKey(Head(s).v, "id") THEN 1 ELSE 0)

\* for r in recipes: ... ; rnd is the sequence of random draws
RECURSIVE normalize_list(_, _)
normalize_list(s, rnd) ==
  IF s = <<>> THEN Ok(<<>>)
  ELSE IF Head(s).t # "object" THEN Raise("AttributeError", 103)
  ELSE LET draws == ~HasKey(Head(s).v, "id")
           rid == IF draws THEN Head(rnd) ELSE 0
           rest == normalize_list(Tail(s), IF draws THEN Tail(rnd) ELSE rnd)
       IN IF rest.ok
          THEN Ok(<<JObj(normalize_recipe(Head(s).v, rid))>> \o rest.v)
          ELSE rest

normalize(recipes, rnd) ==
  CASE recipes.t = "list" ->
         LET n == normalize_list(recipes.v, rnd)
         IN IF n.ok THEN Ok(JList(n.v)) ELSE n
    [] OTHER -> Raise("TypeError", 102)

suggest(d, gen, rnd) ==
  LET meal_type == or_empty_strip(Get(d, "meal_type"), 37)
      goals == OrElse(Get(d, "goals"), JList(<<>>))
      comments == or_empty_strip(Get(d, "comments"), 39)
      limit == read_limit(d)
  IN IF ~meal_type.ok THEN Result(Unhandled(meal_type), <<>>)
     ELSE IF ~comments.ok THEN Result(Unhandled(comments), <<>>)
     ELSE IF ~limit.ok THEN Result(Unhandled(limit), <<>>)
     ELSE
       LET prompt == [limit |-> clamp_limit(limit.v), meal_type |-> lower(meal_type.v),
                      goals |-> goals, comments |-> comments.v]
           log == responses_create(<<>>, prompt, gen)
       IN IF gen.kind = "raise"
          THEN Result(Json(200, [recipes |-> JList(<<>>), error |-> gen.exc]), log)
          ELSE
            LET doc == json_loads(gen)
                recipes == IF doc.ok THEN get_recipes(doc.v) ELSE doc
            IN IF ~recipes.ok
               THEN Result(Json(200, [recipes |-> JList(<<>>), error |-> recipes.exc]), log)
               ELSE
                 LET out == normalize(recipes.v, rnd)
                 IN IF out.ok
                    THEN Result(Json(200, [recipes |-> out.v, error |-> "none"]), log)
                    ELSE Result(Unhandled(out), log)

(***************************************************************************)
(* Inputs of /suggest                                                      *)
(***************************************************************************)
Lunch == <<"l", "u", "n", "c", "h">>
Dinner == <<"d", "i", "n", "n", "e", "r">>

MealTypeValues == {JAbsent, JStr(<<" ", "L", "u", "n", "c", "h">>)}

GoalsValues ==
  {JAbsent,
   JList(<<JStr(<<"low_budget">>)>>),
   JList(<<JStr(<<"vegan">>), JStr(<<"high_protein">>), JStr(<<"quick_meal">>)>>)}

LimitValues ==
  {JAbsent, JNull, JInt(0), JInt(2), JInt(4), JInt(9),
   JStr(<<"4">>), JStr(<<"a", "b", "c">>), JList(<<>>), JList(<<JInt(4)>>)}

CommentsValues == {JAbsent, JStr(<<"n", "o", " ", "n", "u", "t", "s", " ">>)}

SuggestBodies ==
  {[meal_type |-> m, goals |-> g, comments |-> c, limit |-> l] :
     m \in MealTypeValues, g \in GoalsValues, c \in CommentsValues, l \in LimitValues}

Macros(kcal, protein_g) == JObj([kcal |-> kcal, protein_g |-> protein_g])

\* a complete recipe, carrying both cost field names
RecipeA ==
  JObj([id |-> JInt(1), title |-> JStr(<<"A">>), meal_type |-> JStr(Lunch),
        goal |-> JList(<<JStr(<<"low_budget">>)>>), time_min |-> JInt(30),
        cost_usd |-> JInt(2), cost_per_serving_usd |-> JInt(3),
        macros |-> Macros(JInt(500), JInt(10))])

\* a recipe without id, goal, cost_usd and macros.protein_g
RecipeB ==
  JObj([id |-> JAbsent, title |-> JStr(<<"B">>), meal_type |-> JStr(Dinner),
        goal |-> JAbsent, time_min |-> JInt(10),
        cost_usd |-> JAbsent, cost_per_serving_usd |-> JInt(1),
        macros |-> Macros(JInt(300), JAbsent)])

\* what a recipes list may hold: two objects and a non-object entry
Entries == {RecipeA, RecipeB, JInt(7)}

RECURSIVE SeqsUpTo(_, _)
SeqsUpTo(S, n) ==
  IF n = 0 THEN {<<>>}
  ELSE LET shorter == SeqsUpTo(S, n - 1)
       IN shorter \cup {Append(s, e) : s \in {q \in shorter : Len(q) = n - 1}, e \in S}

RecipesDoc(x) == JObj([recipes |-> x])

\* the documents the model may answer with, once parsed
JsonDocs ==
  {RecipesDoc(JAbsent), RecipesDoc(JNull), JList(<<>>)}
  \cup {RecipesDoc(JList(s)) : s \in SeqsUpTo(Entries, MaxRecipes)}

GenRaise == [kind |-> "raise", exc |-> "APIError"]
GenNone == [kind |-> "ok", text |-> "none"]
GenProse(s) == [kind |-> "ok", text |-> "prose", value |-> s]

SuggestOutcomes ==
  {GenRaise, GenNone, GenProse(<<"S", "o", "r", "r", "y">>)}
  \cup {[kind |-> "ok", text |-> "json", value |-> v] : v \in JsonDocs}

RandIds == {RandLo, RandHi}

\* how many random ids the normalisation pass draws for this outcome
Draws(gen) ==
  IF gen.kind = "ok" /\ gen.text = "json" /\ gen.value.t = "object"
     /\ gen.value.v.recipes.t = "list"
  THEN NeedsId(gen.value.v.recipes.v) ELSE 0

\* ids carried by a response's recipes
IdsOf(r) ==
  IF r.kind = "json" /\ r.body.recipes.t = "list"
  THEN {r.body.recipes.v[i].v.id : i \in 1..Len(r.body.recipes.v)}
  ELSE {}

(***************************************************************************)
(* POST /ai/instructions and POST /ai/chat                                 *)
(***************************************************************************)
RecipeKeys ==
  {"title", "meal_type", "meal", "ingredients", "macros", "time_min",
   "cost_usd", "cost_per_serving_usd"}

\* {}
EmptyDict == JObj([k \in RecipeKeys |-> JAbsent])

\* str.replace(a ++ b, to) for a two-character pattern, left to right
RECURSIVE replace2(_, _, _, _)
replace2(s, a, b, to) ==
  IF Len(s) < 2 THEN s
  ELSE IF s[1] = a /\ s[2] = b THEN to \o replace2(SubSeq(s, 3, Len(s)), a, b, to)
  ELSE <<Head(s)>> \o replace2(Tail(s), a, b, to)

\* message.replace(". ", ".\n").replace("  ", " ").strip()
formatted(message) ==
  strip(replace2(replace2(message, ".", " ", <<".", "\n">>), " ", " ", <<" ">>))

\* r.get(k, r.get(k2, default))
Get2(r, k, k2, default) == GetDefault(r, k, GetDefault(r, k2, default))

ai_instructions(d, gen) ==
  LET r == OrElse(Get(d, "recipe"), EmptyDict)
  IN IF r.t # "object" THEN Result(Unhandled(Raise("AttributeError", 123)), <<>>)
     ELSE
       LET prompt == [title |-> GetDefault(r.v, "title", JStr(<<"Recipe">>)),
                      meal_type |-> Get2(r.v, "meal_type", "meal", JStr(<<>>)),
                      ingredients |-> GetDefault(r.v, "ingredients", JList(<<>>)),
                      macros |-> GetDefault(r.v, "macros", EmptyDict),
                      time_min |-> Get(r.v, "time_min"),
                      cost_usd |-> Get2(r.v, "cost_usd", "cost_per_serving_usd", JNull)]
           log == responses_create(<<>>, prompt, gen)
       IN IF gen.kind = "raise"
          THEN Result(Json(500, [message |-> <<"(AI error)">>, error |-> gen.exc]), log)
          ELSE
            LET message == strip(OrElse(output_text(gen), JStr(<<>>)).v)
            IN Result(Json(200, [message |-> formatted(message), error |-> "none"]), log)

ai_chat(d, gen) ==
  LET msg == or_empty_strip(Get(d, "message"), 174)
      r == OrElse(Get(d, "recipe"), EmptyDict)
  IN IF ~msg.ok THEN Result(Unhandled(msg), <<>>)
     ELSE IF r.t # "object" THEN Result(Unhandled(Raise("AttributeError", 176)), <<>>)
     ELSE
       LET coach == [title |-> GetDefault(r.v, "title", JStr(<<"Recipe">>)),
                     ingredients |-> GetDefault(r.v, "ingredients", JList(<<>>)),
                     message |-> msg.v]
           log == responses_create(<<>>, coach, gen)
       IN IF gen.kind = "raise"
          THEN Result(Json(500, [reply |-> <<"(error) ", gen.exc>>]), log)
          ELSE Result(Json(200, [reply |-> strip(OrElse(output_text(gen), JStr(<<>>)).v)]), log)

(***************************************************************************)
(* POST /email                                                             *)
(***************************************************************************)
\* to = (data.get("to") or "").strip()
read_to(d) == or_empty_strip(Get(d, "to"), 207)

\* the credential test with `and` in place of `or`
dry_run_when_both_missing(user, pass) == ~Truthy(user) /\ ~Truthy(pass)

\* if not SMTP_USER or not SMTP_PASS
dry_run(user, pass) == ~Truthy(user) \/ ~Truthy(pass)

\* the macros_line parts: one <<value, unit>> per truthy macro, in source order
macros_parts(macros) ==
  SelectSeq(<<<<Get(macros, "kcal"), "kcal">>, <<Get(macros, "protein_g"), "g protein">>,
              <<Get(macros, "carbs_g"), "g carbs">>, <<Get(macros, "fat_g"), "g fat">>>>,
            LAMBDA p : Truthy(p[1]))

\* esc(s): (s or "").replace(...); only None, "" and str values pass
esc_ok(x) == ~Truthy(x) \/ x.t = "str"

\* f"- {qty or ''} {unit} {nm}" for every ingredient, and the <li> lines:
\* each entry must be a dict, and esc() must accept its unit and name
ingredient_lines(ingredients, line) ==
  CASE ingredients.t = "null" -> Raise("TypeError", line)
    [] ingredients.t = "list" ->
         IF \E i \in 1..Len(ingredients.v) : ingredients.v[i].t # "object"
         THEN Raise("AttributeError", 241)
         ELSE IF \E i \in 1..Len(ingredients.v) :
                   ~esc_ok(Get(ingredients.v[i].v, "unit"))
                   \/ ~esc_ok(Get(ingredients.v[i].v, "name"))
         THEN Raise("AttributeError", 253)
         ELSE Ok([i \in 1..Len(ingredients.v) |->
                   [qty |-> OrElse(Get(ingredients.v[i].v, "qty"), JStr(<<>>)),
                    unit |-> GetDefault(ingredients.v[i].v, "unit", JStr(<<>>)),
                    name |-> OrElse(Get(ingredients.v[i].v, "name"), JStr(<<>>))]])
    [] OTHER -> Raise("TypeError", IF Truthy(ingredients) THEN 240 ELSE line)

\* the text and html bodies: what they show, or the exception building them raises
build_bodies(name, recipe, instructions) ==
  IF recipe.t # "object" THEN Raise("AttributeError", 215)
  ELSE
    LET title == GetDefault(recipe.v, "title", JStr(<<"Selected Recipe">>))
        time_min == Get(recipe.v, "time_min")
        cost_usd == Get2(recipe.v, "cost_usd", "cost_per_serving_usd", JNull)
        macros == GetDefault(recipe.v, "macros", JObj([k \in {"kcal", "protein_g", "carbs_g", "fat_g"} |-> JAbsent]))
        ingredients == GetDefault(recipe.v, "ingredients", JList(<<>>))
    IN IF macros.t # "object" THEN Raise("AttributeError", 222)
       ELSE
         LET lines == ingredient_lines(ingredients, 254)
         IN IF ~lines.ok THEN lines
            ELSE IF ~esc_ok(name) THEN Raise("AttributeError", 253)
            ELSE IF ~esc_ok(title) THEN Raise("AttributeError", 253)
            ELSE Ok([name |-> name, title |-> title,
                     time |-> IF Truthy(time_min) THEN time_min ELSE JNull,
                     cost |-> IF cost_usd.t = "int" THEN cost_usd ELSE JNull,
                     macros_line |-> macros_parts(macros.v),
                     ingredients |-> lines.v,
                     instructions |-> instructions])

\* the try block: build the message, connect, log in, send
smtp_send(log, smtp, user, pass, from, to) ==
  LET connected == Append(log, [op |-> "SMTP_SSL", host |-> "smtp.gmail.com", port |-> 465])
      logged == Append(connected, [op |-> "login", user |-> user])
      sent == Append(logged, [op |-> "sendmail", from |-> from, to |-> to])
  IN CASE smtp = "connect_error" -> Result(Json(500, [ok |-> FALSE, mode |-> "none", error |-> "ConnectError"]), connected)
       [] smtp = "login_error" -> Result(Json(500, [ok |-> FALSE, mode |-> "none", error |-> "SMTPAuthenticationError"]), logged)
       [] smtp = "sendmail_error" -> Result(Json(500, [ok |-> FALSE, mode |-> "none", error |-> "SMTPRecipientsRefused"]), sent)
       [] smtp = "sent" -> Result(Json(200, [ok |-> TRUE, mode |-> "smtp", error |-> "none"]), sent)

email_send(d, env, smtp) ==
  LET to == read_to(d)
      name == OrElse(Get(d, "name"), JStr(<<"there">>))
      recipe == OrElse(Get(d, "recipe"), EmptyDict)
      instructions == or_empty_strip(Get(d, "instructions"), 210)
  IN IF ~to.ok THEN Result(Unhandled(to), <<>>)
     ELSE IF ~instructions.ok THEN Result(Unhandled(instructions), <<>>)
     ELSE IF to.v = <<>>
     THEN Result(Json(400, [ok |-> FALSE, mode |-> "none", error |-> "Missing recipient email"]), <<>>)
     ELSE
       LET bodies == build_bodies(name, recipe, instructions.v)
           SMTP_USER == env.SMTP_USER
           SMTP_PASS == env.SMTP_PASS
           SMTP_FROM == IF env.SMTP_FROM.t = "null"
                        THEN OrElse(SMTP_USER, JStr(<<"no-reply@mealprep.ai">>))
                        ELSE env.SMTP_FROM
       IN IF ~bodies.ok THEN Result(Unhandled(bodies), <<>>)
          ELSE IF dry_run(SMTP_USER, SMTP_PASS)
          THEN Result(Json(200, [ok |-> TRUE, mode |-> "dry_run", error |-> "none",
                                 preview |-> bodies.v]), <<>>)
          ELSE smtp_send(<<>>, smtp, SMTP_USER, SMTP_PASS, SMTP_FROM, to.v)

(***************************************************************************)
(* Inputs of /ai/instructions, /ai/chat and /email                         *)
(***************************************************************************)
RecipeDict(title, macros, ingredients) ==
  JObj([k \in RecipeKeys |->
         CASE k = "title" -> title
           [] k = "macros" -> macros
           [] k = "ingredients" -> ingredients
           [] k = "cost_per_serving_usd" -> JInt(3)
           [] OTHER -> JAbsent])

Ingredient(qty, unit, name) == JObj([qty |-> qty, unit |-> unit, name |-> name])

Egg == Ingredient(JInt(2), JAbsent, JStr(<<"egg">>))

FullMacros ==
  JObj([kcal |-> JInt(500), protein_g |-> JInt(0), carbs_g |-> JAbsent, fat_g |-> JInt(9)])

\* the "recipe" member of a request body: missing, empty, well formed, a list
\* instead of a dict, and dicts with a null or ill-typed member
RecipeValues ==
  {JAbsent, EmptyDict, JList(<<JInt(1)>>),
   RecipeDict(JStr(<<"Omelette">>), FullMacros, JList(<<Egg>>)),
   RecipeDict(JStr(<<"Omelette">>), JNull, JList(<<Egg>>)),
   RecipeDict(JAbsent, JAbsent, JNull),
   RecipeDict(JInt(5), JAbsent, JList(<<JStr(<<"egg">>)>>))}

\* what the model may say in /ai/instructions and /ai/chat
Texts ==
  {<<>>, <<"o", "k">>,
   <<" ", "1", ".", " ", "M", "i", "x", ".", " ", " ", "2", ".", " ", "F", "r", "y", ".", " ">>}

TextOutcomes == {GenRaise, GenNone} \cup {GenProse(s) : s \in Texts}

InstructionsBodies == {[recipe |-> r] : r \in RecipeValues}

MessageValues == {JAbsent, JStr(<<" ", "h", "i", " ">>), JInt(5)}

ChatBodies == {[message |-> m, recipe |-> r] : m \in MessageValues, r \in RecipeValues}

ToValues ==
  {JAbsent, JNull, JStr(<<>>), JStr(<<" ", " ">>), JInt(5),
   JStr(<<" ", "a", "@", "b", ".", "c">>)}

NameValues == {JAbsent, JStr(<<"Ana">>), JInt(5)}

InstructionsValues == {JAbsent, JStr(<<" ", "M", "i", "x">>), JInt(5)}

EmailBodies ==
  {[to |-> t, name |-> n, recipe |-> r, instructions |-> i] :
     t \in ToValues, n \in NameValues, r \in RecipeValues, i \in InstructionsValues}

\* os.getenv(...): None when unset, otherwise a string (possibly empty)
EnvValues == {JNull, JStr(<<>>), JStr(<<"me@gmail.com">>)}

Envs ==
  {[SMTP_USER |-> u, SMTP_PASS |-> p, SMTP_FROM |-> f] :
     u \in EnvValues, p \in EnvValues, f \in {JNull, JStr(<<"chef@mealprep.ai">>)}}

SmtpOutcomes == {"connect_error", "login_error", "sendmail_error", "sent"}

(***************************************************************************)
(* State machine                                                           *)
(***************************************************************************)
NoCollab == [kind |-> "none"]
NoData == [none |-> JAbsent]

Init ==
  /\ handler = "idle"
  /\ data = NoData
  /\ collab = NoCollab
  /\ io = <<>>
  /\ resp = NoResponse
  /\ issued = {}

\* POST /suggest handled from start to finish
Suggest ==
  /\ handler = "idle"
  /\ \E d \in SuggestBodies, gen \in SuggestOutcomes :
       \E rnd \in [1..Draws(gen) -> RandIds] :
         LET r == suggest(d, gen, rnd)
         IN /\ handler' = "suggest"
            /\ data' = d
            /\ collab' = gen
            /\ io' = r.io
            /\ resp' = r.resp
            /\ UNCHANGED issued

\* the framework sends the response; the ids it carried are now in clients' hands
Reply ==
  /\ handler # "idle"
  /\ handler' = "idle"
  /\ data' = NoData
  /\ collab' = NoCollab
  /\ io' = <<>>
  /\ resp' = NoResponse
  /\ issued' = IF handler = "suggest" THEN issued \cup IdsOf(resp) ELSE issued

\* POST /ai/instructions handled from start to finish
AiInstructions ==
  /\ handler = "idle"
  /\ \E d \in InstructionsBodies, gen \in TextOutcomes :
       LET r == ai_instructions(d, gen)
       IN /\ handler' = "ai_instructions"
          /\ data' = d
          /\ collab' = gen
          /\ io' = r.io
          /\ resp' = r.resp
          /\ UNCHANGED issued

\* POST /ai/chat handled from start to finish
AiChat ==
  /\ handler = "idle"
  /\ \E d \in ChatBodies, gen \in TextOutcomes :
       LET r == ai_chat(d, gen)
       IN /\ handler' = "ai_chat"
          /\ data' = d
          /\ collab' = gen
          /\ io' = r.io
          /\ resp' = r.resp
          /\ UNCHANGED issued

\* POST /email handled from start to finish
EmailSend ==
  /\ handler = "idle"
  /\ \E d \in EmailBodies, env \in Envs, smtp \in SmtpOutcomes :
       LET r == email_send(d, env, smtp)
       IN /\ handler' = "email"
          /\ data' = d
          /\ collab' = [kind |-> "smtp", env |-> env, smtp |-> smtp]
          /\ io' = r.io
          /\ resp' = r.resp
          /\ UNCHANGED issued

Next == Suggest \/ AiInstructions \/ AiChat \/ EmailSend \/ Reply

Spec == Init /\ [][Next]_vars

(***************************************************************************)
(* Properties                                                              *)
(***************************************************************************)
\* /suggest returned a recipes payload without an error member
SuggestReturned ==
  handler = "suggest" /\ resp.kind = "json" /\ resp.body.error = "none"

\* the recipes list the collaborator delivered (empty when it delivered none)
Delivered ==
  IF collab.kind = "ok" /\ collab.text = "json" /\ collab.value.t = "object"
     /\ collab.value.v.recipes.t = "list"
  THEN collab.value.v.recipes.v ELSE <<>>

\* the collaborator answered with a JSON object whose recipes, if any, is a
\* list of objects
DeliveredRecipeObjects ==
  /\ collab.kind = "ok" /\ collab.text = "json" /\ collab.value.t = "object"
  /\ collab.value.v.recipes.t \in {"absent", "list"}
  /\ \A i \in 1..Len(Delivered) : Delivered[i].t = "object"

Returned == resp.body.recipes.v

Titles(s) == [i \in 1..Len(s) |-> s[i].v.title]

\* C1: the response never holds more than `limit` recipes (limit as clamped by
\* the handler and written into the prompt), and holds the first `limit`
\* delivered recipes in their order
C1_AtMostLimit ==
  SuggestReturned =>
    LET limit == io[1].prompt.limit
        n == Min(limit, Len(Delivered))
    IN /\ Len(Returned) <= limit
       /\ Titles(Returned) = SubSeq(Titles(Delivered), 1, n)

RankingGoals ==
  {"low_budget", "quick_meal", "gain_muscle", "high_protein", "lose_fat",
   "keto_friendly", "low_carb"}

\* the first recognised ranking goal in caller order, "none" if there is none
RECURSIVE FirstRankingGoal(_)
FirstRankingGoal(goals) ==
  IF goals = <<>> THEN "none"
  ELSE IF Head(goals).t = "str" /\ Len(Head(goals).v) = 1 /\ Head(goals).v[1] \in RankingGoals
  THEN Head(goals).v[1]
  ELSE FirstRankingGoal(Tail(goals))

Absent == [present |-> FALSE, key |-> 0]
Present(n) == [present |-> TRUE, key |-> n]

IntKey(x) == IF x.t = "int" THEN Present(x.v) ELSE Absent

\* the sort key of a recipe for ranking goal g, smaller first
RankKey(g, r) ==
  CASE g = "low_budget" ->
         IF r.cost_usd.t = "int" THEN IntKey(r.cost_usd) ELSE IntKey(r.cost_per_serving_usd)
    [] g = "quick_meal" -> IntKey(r.time_min)
    [] g \in {"gain_muscle", "high_protein"} ->
         IF r.macros.t = "object" /\ r.macros.v.protein_g.t = "int"
         THEN Present(0 - r.macros.v.protein_g.v) ELSE Absent
    [] OTHER ->
         IF r.macros.t = "object" THEN IntKey(r.macros.v.kcal) ELSE Absent

\* a may precede b: a recipe missing the key field goes last
MayPrecede(a, b) == ~b.present \/ (a.present /\ a.key <= b.key)

\* where x first occurs in s (0 if nowhere)
FirstIndex(s, x) ==
  IF \E i \in 1..Len(s) : s[i] = x
  THEN CHOOSE i \in 1..Len(s) : s[i] = x /\ \A j \in 1..(i - 1) : s[j] # x
  ELSE 0

\* s is in rank order for g
InRankOrder(g, s) ==
  \A i, j \in 1..Len(s) : i < j => MayPrecede(RankKey(g, s[i].v), RankKey(g, s[j].v))

\* C2: with a recognised ranking goal the returned recipes are in that goal's
\* order (ties in delivered order, missing key last); with none the delivered
\* order is kept
C2_RankedByFirstGoal ==
  SuggestReturned =>
    LET g == FirstRankingGoal(io[1].prompt.goals.v)
    IN IF g = "none"
       THEN \A i \in 1..Len(Returned) :
              i <= Len(Delivered) /\ Returned[i].v.title = Delivered[i].v.title
       ELSE /\ InRankOrder(g, Returned)
            /\ \A i, j \in 1..Len(Returned) :
                 (i < j /\ RankKey(g, Returned[i].v) = RankKey(g, Returned[j].v)) =>
                   FirstIndex(Titles(Delivered), Returned[i].v.title)
                     <= FirstIndex(Titles(Delivered), Returned[j].v.title)

\* C3: with a non-empty requested meal_type every returned recipe has that
\* meal_type, compared case-insensitively; with an empty one every delivered
\* recipe that fits within the limit is returned
C3_MealTypeFiltered ==
  SuggestReturned =>
    IF io[1].prompt.meal_type # <<>>
    THEN \A i \in 1..Len(Returned) :
           /\ Returned[i].v.meal_type.t = "str"
           /\ lower(Returned[i].v.meal_type.v) = io[1].prompt.meal_type
    ELSE Len(Delivered) <= io[1].prompt.limit => Titles(Returned) = Titles(Delivered)

CredentialsAbsent ==
  ~Truthy(collab.env.SMTP_USER) \/ ~Truthy(collab.env.SMTP_PASS)

\* the request's `to` is absent, null, empty or whitespace-only
BlankRecipient ==
  \/ data.to.t \in {"absent", "null"}
  \/ data.to.t = "str" /\ strip(data.to.v) = <<>>

SmtpSuccess == resp.kind = "json" /\ resp.body.ok /\ resp.body.mode = "smtp"

DryRunSuccess == resp.kind = "json" /\ resp.body.ok /\ resp.body.mode = "dry_run"

MissingRecipientError ==
  resp.kind = "json" /\ resp.status = 400 /\ ~resp.body.ok /\ resp.body.error # "none"

SentAfterLogin ==
  /\ Len(io) = 3
  /\ io[1].op = "SMTP_SSL" /\ io[2].op = "login" /\ io[3].op = "sendmail"
  /\ collab.smtp = "sent"

LimitAbsentOrMalformed ==
  \/ data.limit.t \in {"absent", "null", "list"}
  \/ data.limit.t = "int" /\ data.limit.v = 0
  \/ data.limit.t = "str" /\ ~IsDigits(strip(data.limit.v))

\* C5: an absent or malformed limit is no error: the generation call is issued
\* with the default limit, and a collaborator that delivers recipe objects
\* gets a JSON response
C5_MalformedLimitDefaults ==
  (handler = "suggest" /\ LimitAbsentOrMalformed) =>
    /\ Len(io) = 1
    /\ io[1].prompt.limit = DefaultLimit
    /\ DeliveredRecipeObjects => resp.kind = "json"

\* C6: ids are unique in a response, sequential, and larger than every id an
\* earlier batch carried
C6_IdsNeverReused ==
  SuggestReturned =>
    /\ \A i, j \in 1..Len(Returned) : i # j => Returned[i].v.id # Returned[j].v.id
    /\ \A i \in 1..Len(Returned) : Returned[i].v.id \notin issued
    /\ \A i \in 1..Len(Returned) : \A old \in issued : Returned[i].v.id.v > old.v
    /\ \A i \in 1..(Len(Returned) - 1) : Returned[i + 1].v.id.v = Returned[i].v.id.v + 1

GenerationFailed ==
  /\ handler \in {"suggest", "ai_instructions", "ai_chat"}
  /\ io # <<>>
  /\ collab.kind = "raise"

Unparsable ==
  handler = "suggest" /\ io # <<>> /\ collab.kind = "ok" /\ collab.text = "prose"

\* C7: every request ends in a JSON payload; for /suggest a collaborator error
\* and an unparsable answer yield {recipes: [], error}
C7_AlwaysJson ==
  handler # "idle" =>
    /\ resp.kind = "json"
    /\ (handler = "suggest" /\ (GenerationFailed \/ Unparsable)) =>
         (resp.body.recipes = JList(<<>>) /\ resp.body.error # "none")

Count(op) == Cardinality({i \in 1..Len(io) : io[i].op = op})

SmtpFailed == handler = "email" /\ io # <<>> /\ collab.smtp # "sent"

\* the error a caller sees: an error member, or for /ai/chat the error reply
\* with status 500
CallerVisibleError ==
  /\ resp.kind = "json"
  /\ IF handler = "ai_chat"
     THEN resp.status = 500 /\ resp.body.reply = <<"(error) ", collab.exc>>
     ELSE resp.body.error # "none"

\* C8: a request attempts its collaborator at most once, and a failed attempt
\* is followed by no further call and by an error the caller sees
C8_SingleAttempt ==
  handler # "idle" =>
    /\ Count("responses.create") <= 1
    /\ Count("SMTP_SSL") <= 1 /\ Count("login") <= 1 /\ Count("sendmail") <= 1
    /\ (GenerationFailed \/ Unparsable \/ SmtpFailed) => CallerVisibleError

C8_Witness ==
  /\ handler = "ai_chat"
  /\ collab.kind = "raise"
  /\ Count("responses.create") = 1
  /\ resp.status = 500

\* C9: a request with a blank recipient gets the 400 error and neither a send
\* nor a dry-run success, whatever the credentials
C9_BlankRecipientRejected ==
  (handler = "email" /\ BlankRecipient) => (MissingRecipientError /\ io = <<>>)

\* one delivered recipe d and its returned form r differ only in filled gaps
OnlyGapsFilled(d, r) ==
  /\ \A k \in DOMAIN d : k \notin {"id", "goal", "cost_usd"} => r[k] = d[k]
  /\ DOMAIN r = DOMAIN d
  /\ IF HasKey(d, "id") THEN r.id = d.id
     ELSE r.id.t = "int" /\ r.id.v \in RandLo..RandHi
  /\ IF HasKey(d, "goal") THEN r.goal = d.goal ELSE r.goal = JList(<<>>)
  /\ IF HasKey(d, "cost_usd") THEN r.cost_usd = d.cost_usd
     ELSE IF HasKey(d, "cost_per_serving_usd") THEN r.cost_usd = d.cost_per_serving_usd
     ELSE r.cost_usd = JAbsent
  /\ HasKey(r, "id") /\ HasKey(r, "goal")

====
